---- MODULE Spec2Model ----
(***************************************************************************)
(* Model of the calibration pipeline of src/src/lib.rs                     *)
(* (produce_calibration and the functions it calls) and of                 *)
(* Resolution::parse.                                                      *)
(*                                                                         *)
(* Geometry is kept exact in integer arithmetic.  A point is homogeneous,  *)
(* [x, y, z, w] standing for (x/w, y/w, z/w); w = 0 stands for a vector    *)
(* of NaN.  View-space coordinates are kept as the numerators of the glm   *)
(* look_at transform before normalisation: with f0 = center - eye,         *)
(* s0 = f0 x up, u0 = s0 x f0 and d = p - eye the true view coordinates    *)
(* are  x = (s0.d)/|s0|,  y = (u0.d)/(|s0||f0|),  z = -(f0.d)/|f0|.        *)
(* Angles in the first quadrant are compared by cross-multiplying their    *)
(* tangents, so no square root or trigonometric function is needed.        *)
(***************************************************************************)
EXTENDS Integers, Sequences, FiniteSets, TLC

VARIABLES pc, config, virtual_camera, image_points, scene_local, scene_coords,
          loop_i, uv_local, uv_coords, warnings, output, panic_at, net_failed,
          reads, parse_input, parse_result, la_input, la_result

vars == <<pc, config, virtual_camera, image_points, scene_local, scene_coords,
          loop_i, uv_local, uv_coords, warnings, output, panic_at, net_failed,
          reads, parse_input, parse_result, la_input, la_result>>

pipeline_vars == <<pc, config, virtual_camera, image_points, scene_local,
                   scene_coords, loop_i, uv_local, uv_coords, warnings, output,
                   panic_at, net_failed, reads>>

parse_vars == <<parse_input, parse_result>>

la_vars == <<la_input, la_result>>

(* ------------------------------ bounds -------------------------------- *)

\* largest number of chessboard corners (warp_res.width * warp_res.height)
MaxPts == 2

\* image points have pixel coordinates 0..PixMaxX by 0..PixMaxY
PixMaxX == 2

PixMaxY == 1

\* longest point sequence given to calculate_look_at on its own
MaxSeq == 3

\* longest resolution string given to Resolution::parse
MaxStr == 4

(* ------------------------------ options ------------------------------- *)

None == <<>>

Some(v) == <<v>>

Unwrap(o) == o[1]

Abs(n) == IF n < 0 THEN -n ELSE n

RECURSIVE Gcd(_, _)

Gcd(a, b) == IF b = 0 THEN a ELSE Gcd(b, a % b)

(* ------------------------------ vectors ------------------------------- *)

Vec3(x, y, z) == [x |-> x, y |-> y, z |-> z]

Point(x, y, z, w) == [x |-> x, y |-> y, z |-> z, w |-> w]

Dot(a, b) == a.x * b.x + a.y * b.y + a.z * b.z

Cross(a, b) == Vec3(a.y * b.z - a.z * b.y, a.z * b.x - a.x * b.z, a.x * b.y - a.y * b.x)

\* p - eye for a homogeneous p, scaled by p.w (a positive factor)
Offset(p, eye) == Vec3(p.x - p.w * eye.x, p.y - p.w * eye.y, p.z - p.w * eye.z)

(* ------------------------- surfaces (not in src) ---------------------- *)

\* the surface and physical camera: the plane z = -SurfaceDepth, bounded by
\* |x| <= SurfaceHalf and |y| <= SurfaceHalf, seen by a camera that maps the
\* pixel (x, y) to the point (x, y, -SurfaceDepth) of the plane
SurfaceDepth == 2

SurfaceHalf == 1

Pixels == [x : 0..PixMaxX, y : 0..PixMaxY, w : {1}]

Failed == [tag |-> "Err"]

Hit(p) == [tag |-> "Ok", point |-> p]

\* surfaces::camera_to_scene: the set of results the call can have.  A
\* pixel of NaN (w = 0) has no specified result: the intersection either
\* fails or yields a point of NaN.
camera_to_scene(p) ==
  IF p.w = 0 THEN {Failed, Hit(Point(0, 0, 0, 0))}
  ELSE IF Abs(p.x) <= SurfaceHalf * p.w /\ Abs(p.y) <= SurfaceHalf * p.w
         THEN {Hit(Point(p.x, p.y, -SurfaceDepth * p.w, p.w))}
         ELSE {Failed}

(* ------------------------------ glm ----------------------------------- *)

\* v divided by the greatest common divisor of its components: the same
\* direction with smaller numbers
Reduced(v) ==
  LET g == Gcd(Gcd(Abs(v.x), Abs(v.y)), Abs(v.z))
  IN IF g = 0 THEN v ELSE Vec3(v.x \div g, v.y \div g, v.z \div g)

\* glm::ext::look_at(eye, center, up): the unnormalised basis of the view
\* transform; nan when a normalisation divides by zero
look_at(eye, center, up) ==
  LET f0 == Reduced(Offset(center, eye))
      s0 == Cross(f0, up)
      u0 == Cross(s0, f0)
  IN [f |-> f0, s |-> s0, u |-> u0, eye |-> eye,
      nan |-> (center.w = 0 \/ Dot(f0, f0) = 0 \/ Dot(s0, s0) = 0)]

\* trans * scene_point.extend(1.): x, y numerators and the depth along the
\* view axis (z > 0 is in front of the camera)
EyeRelative(trans, p) ==
  LET d == Offset(p, trans.eye)
  IN Vec3(Dot(trans.s, d), Dot(trans.u, d), Dot(trans.f, d))

\* eye_relative.y.abs().atan2(eye_relative.z.abs()) as the pair (a, b) with
\* tan = a / (b |s0|); atan2(0, 0) = 0
Rad(er) ==
  IF er.y = 0 /\ er.z = 0 THEN [a |-> 0, b |-> 1]
  ELSE LET g == Gcd(Abs(er.y), Abs(er.z))
       IN [a |-> Abs(er.y) \div g, b |-> Abs(er.z) \div g]

\* the initial max_rad = -1_f32: below every angle of Rad
NegOneRad == [a |-> -1, b |-> 1]

(* ------------------- generate_uv_warp_and_fov: the fit ---------------- *)

\* max_rad = rad in every iteration: the angle of the last point
RadGreater_last(rad, max_rad) == TRUE

\* rad > max_rad, both in the first quadrant (or max_rad = -1)
RadGreater(rad, max_rad) == rad.a * max_rad.b > max_rad.a * rad.b

RECURSIVE MaxRadUpTo(_, _, _)

\* the value of max_rad after the first k iterations of the loop of
\* generate_uv_warp_and_fov
MaxRadUpTo(trans, coords, k) ==
  IF k = 0 THEN NegOneRad
  ELSE LET m == MaxRadUpTo(trans, coords, k - 1)
           rad == Rad(EyeRelative(trans, coords[k]))
       IN IF RadGreater(rad, m) THEN rad ELSE m

\* glm::degrees(max_rad) * 2.001, kept as the angle max_rad it is made of
FittedFov(trans, coords) == MaxRadUpTo(trans, coords, Len(coords))

(* ----------------------- project_scene_point -------------------------- *)

Resolutions == {[width |-> 1, height |-> 1], [width |-> 2, height |-> 1]}

\* tan(max_rad) > k, for the angle max_rad = (a, b) of tangent a / (b |s0|)
\* and s2 = |s0|^2: a^2 > k^2 b^2 s2
TanAbove(max_rad, s2, k) ==
  LET d == max_rad.b * max_rad.b * s2
  IN d = 0 \/ (max_rad.a * max_rad.a - 1) \div d >= k * k

\* The position of one normalized coordinate relative to [0,1]: "in", "out"
\* or "nan".  num2 is the squared tangent of the point's angle on the axis
\* and lim2 the squared tangent of max_rad times the squared aspect factor,
\* both over the same denominator, so the coordinate is inside when
\* num2 <= lim2 * (tan(1.0005 max_rad) / tan(max_rad))^2.  That factor is
\* above 1, and below 51/50 while tan(max_rad) <= 10; the half angle
\* 1.0005 max_rad is below 90 degrees while tan(max_rad) <= 1273.
\* With max_rad = 0 the projection divides by tan(0): the coordinate is a
\* NaN, an infinity or, after rounding, any value.
AxisClass(trans, fov, num, depth, num2, lim2) ==
  LET s2 == Dot(trans.s, trans.s)
  IN IF trans.nan THEN {"nan"}
     ELSE IF fov.a < 0 THEN {"in", "out", "nan"}
     ELSE IF fov.a = 0 THEN {"in", "out", "nan"}
     ELSE IF depth = 0 THEN (IF num = 0 THEN {"nan"} ELSE {"out"})
     ELSE IF TanAbove(fov, s2, 1273) THEN {"in", "out"}
     ELSE IF num2 <= lim2 THEN {"in"}
     ELSE IF ~TanAbove(fov, s2, 10) /\ num2 - lim2 > lim2 \div 50 THEN {"out"}
     ELSE {"in", "out"}

\* the results project_scene_point can return for scene_pos: the class of
\* screen_pos.x and of screen_pos.y, with the view-space numerators the
\* coordinate is computed from
project_scene_point(scene_pos, vc, res) ==
  LET trans == look_at(vc.position, Unwrap(vc.look_at), vc.up_dir)
      fov == Unwrap(vc.fov)
      er == EyeRelative(trans, scene_pos)
      f2 == Dot(trans.f, trans.f)
      xs == AxisClass(trans, fov, er.x, er.z,
                      er.x * er.x * f2 * fov.b * fov.b * res.height * res.height,
                      res.width * res.width * fov.a * fov.a * er.z * er.z)
      ys == AxisClass(trans, fov, er.y, er.z,
                      er.y * er.y * fov.b * fov.b,
                      fov.a * fov.a * er.z * er.z)
  IN {[x |-> cx, y |-> cy, eye_relative |-> er] : cx \in xs, cy \in ys}

\* screen_pos.x < 0. || screen_pos.y < 0. || screen_pos.x > 1. || screen_pos.y > 1.
OffScreen(screen_pos) == screen_pos.x = "out" \/ screen_pos.y = "out"

(* --------------------------- the pipeline ----------------------------- *)

EyePositions == {Vec3(0, 0, 0), Vec3(1, 1, 0)}

\* the chessboards of at most MaxPts corners
WarpResolutions ==
  {r \in [width : 1..MaxPts, height : 1..MaxPts] : r.width * r.height <= MaxPts}

\* the parameters of produce_calibration that are read more than once;
\* control_url and post_to are read once each and drawn where they are read
Configs ==
  [eye_position : EyePositions, projector_res : Resolutions, warp_res : WarpResolutions]

NoCamera == None

NoReads == [stage \in {} |-> {}]

Init ==
  /\ pc = "load"
  /\ config \in Configs
  /\ virtual_camera = NoCamera
  /\ image_points = None
  /\ scene_local = <<>>
  /\ scene_coords = None
  /\ loop_i = 1
  /\ uv_local = <<>>
  /\ uv_coords = None
  /\ warnings = <<>>
  /\ output = None
  /\ panic_at = "none"
  /\ net_failed = {}
  /\ reads = NoReads
  /\ parse_input = <<>>
  /\ parse_result = None
  /\ la_input = <<>>
  /\ la_result = None

Panic(where) == pc' = "panicked" /\ panic_at' = where

Record(stage, inputs) == reads' = (stage :> inputs) @@ reads

\* produce_calibration up to the construction of the virtual camera
LoadCalibration ==
  /\ pc = "load"
  /\ \E loaded \in BOOLEAN :
       IF loaded
         THEN /\ pc' = "display"
              /\ virtual_camera' = Some([position |-> config.eye_position,
                                         look_at |-> None,
                                         up_dir |-> Vec3(0, 1, 0),
                                         fov |-> None])
              /\ UNCHANGED panic_at
         ELSE Panic("load_calibration_file") /\ UNCHANGED virtual_camera
  /\ Record("load", {"config"})
  /\ UNCHANGED <<config, image_points, scene_local, scene_coords, loop_i, uv_local,
                 uv_coords, warnings, output, net_failed>>
  /\ UNCHANGED <<parse_vars, la_vars>>

\* post_image without the unwrap: its Err is dropped
DisplayPattern_ignore ==
  /\ pc = "display"
  /\ \E control_url \in {"None", "Some"}, posted \in BOOLEAN :
       IF control_url = "Some"
         THEN /\ pc' = "capture"
              /\ net_failed' = IF posted THEN net_failed ELSE net_failed \cup {"post_image"}
              /\ UNCHANGED panic_at
         ELSE pc' = "capture" /\ UNCHANGED <<panic_at, net_failed>>
  /\ Record("display", {"config"})
  /\ UNCHANGED <<config, virtual_camera, image_points, scene_local, scene_coords,
                 loop_i, uv_local, uv_coords, warnings, output>>
  /\ UNCHANGED <<parse_vars, la_vars>>

\* detect_image_points: show the chessboard, by post_image or by the operator
DisplayPattern ==
  /\ pc = "display"
  /\ \E control_url \in {"None", "Some"}, posted \in BOOLEAN :
       IF control_url = "Some"
         THEN IF posted
                THEN pc' = "capture" /\ UNCHANGED <<panic_at, net_failed>>
                ELSE Panic("post_image") /\ net_failed' = net_failed \cup {"post_image"}
         ELSE pc' = "capture" /\ UNCHANGED <<panic_at, net_failed>>
  /\ Record("display", {"config"})
  /\ UNCHANGED <<config, virtual_camera, image_points, scene_local, scene_coords,
                 loop_i, uv_local, uv_coords, warnings, output>>
  /\ UNCHANGED <<parse_vars, la_vars>>

\* a capture that shows the pattern again when the corners are not found
CaptureImagePoints_retry ==
  /\ pc = "capture"
  /\ \/ /\ \E pts \in [1..(config.warp_res.width * config.warp_res.height) -> Pixels] :
             image_points' = Some(pts)
        /\ pc' = "locate"
        /\ UNCHANGED panic_at
     \/ /\ Panic("take_undistorted_photo")
        /\ UNCHANGED image_points
     \/ /\ pc' = "display"
        /\ UNCHANGED <<image_points, panic_at>>
  /\ Record("capture", {"config"})
  /\ UNCHANGED <<config, virtual_camera, scene_local, scene_coords, loop_i, uv_local,
                 uv_coords, warnings, output, net_failed>>
  /\ UNCHANGED <<parse_vars, la_vars>>

\* detect_image_points: take_undistorted_photo and locate_chessboard_corners,
\* which returns all width * height corners or fails
CaptureImagePoints ==
  /\ pc = "capture"
  /\ \/ /\ \E pts \in [1..(config.warp_res.width * config.warp_res.height) -> Pixels] :
             image_points' = Some(pts)
        /\ pc' = "locate"
        /\ UNCHANGED panic_at
     \/ /\ \E where \in {"take_undistorted_photo", "locate_chessboard_corners"} :
             Panic(where)
        /\ UNCHANGED image_points
  /\ Record("capture", {"config"})
  /\ UNCHANGED <<config, virtual_camera, scene_local, scene_coords, loop_i, uv_local,
                 uv_coords, warnings, output, net_failed>>
  /\ UNCHANGED <<parse_vars, la_vars>>

\* the loop of locate_scene_coords inserting at the front
LocateSceneCoord_front ==
  /\ pc = "locate"
  /\ loop_i <= Len(Unwrap(image_points))
  /\ \E r \in camera_to_scene(Unwrap(image_points)[loop_i]) :
       IF r.tag = "Ok"
         THEN /\ scene_local' = <<r.point>> \o scene_local
              /\ loop_i' = loop_i + 1
              /\ UNCHANGED <<pc, panic_at>>
         ELSE Panic("camera_to_scene") /\ UNCHANGED <<scene_local, loop_i>>
  /\ Record("locate", {"config", "image_points"})
  /\ UNCHANGED <<config, virtual_camera, image_points, scene_coords, uv_local,
                 uv_coords, warnings, output, net_failed>>
  /\ UNCHANGED <<parse_vars, la_vars>>

\* the loop of locate_scene_coords skipping a point without intersection
LocateSceneCoord_skip ==
  /\ pc = "locate"
  /\ loop_i <= Len(Unwrap(image_points))
  /\ \E r \in camera_to_scene(Unwrap(image_points)[loop_i]) :
       /\ scene_local' = IF r.tag = "Ok" THEN Append(scene_local, r.point) ELSE scene_local
       /\ loop_i' = loop_i + 1
       /\ UNCHANGED <<pc, panic_at>>
  /\ Record("locate", {"config", "image_points"})
  /\ UNCHANGED <<config, virtual_camera, image_points, scene_coords, uv_local,
                 uv_coords, warnings, output, net_failed>>
  /\ UNCHANGED <<parse_vars, la_vars>>

\* one iteration of the loop of locate_scene_coords
LocateSceneCoord ==
  /\ pc = "locate"
  /\ loop_i <= Len(Unwrap(image_points))
  /\ \E r \in camera_to_scene(Unwrap(image_points)[loop_i]) :
       IF r.tag = "Ok"
         THEN /\ scene_local' = Append(scene_local, r.point)
              /\ loop_i' = loop_i + 1
              /\ UNCHANGED <<pc, panic_at>>
         ELSE Panic("camera_to_scene") /\ UNCHANGED <<scene_local, loop_i>>
  /\ Record("locate", {"config", "image_points"})
  /\ UNCHANGED <<config, virtual_camera, image_points, scene_coords, uv_local,
                 uv_coords, warnings, output, net_failed>>
  /\ UNCHANGED <<parse_vars, la_vars>>

\* locate_scene_coords returns its vector
LocateReturn ==
  /\ pc = "locate"
  /\ loop_i > Len(Unwrap(image_points))
  /\ scene_coords' = Some(scene_local)
  /\ pc' = "look_at"
  /\ loop_i' = 1
  /\ Record("locate", {"config", "image_points"})
  /\ UNCHANGED <<config, virtual_camera, image_points, scene_local, uv_local,
                 uv_coords, warnings, output, panic_at, net_failed>>
  /\ UNCHANGED <<parse_vars, la_vars>>

RECURSIVE SumUpTo(_, _)

\* avg after the first k iterations of "for p in image_points.iter() { avg = avg + *p }"
SumUpTo(pts, k) ==
  IF k = 0 THEN [x |-> 0, y |-> 0]
  ELSE LET s == SumUpTo(pts, k - 1)
       IN [x |-> s.x + pts[k].x, y |-> s.y + pts[k].y]

\* calculate_look_at before the unwrap: avg / len is the homogeneous pixel
\* (sum.x, sum.y, len), which is NaN for no points (0.0 / 0.0)
calculate_look_at(pts) ==
  LET sum == SumUpTo(pts, Len(pts))
      avg == [x |-> sum.x, y |-> sum.y, w |-> Len(pts)]
  IN camera_to_scene(avg)

RECURSIVE SceneSumUpTo(_, _)

SceneSumUpTo(coords, k) ==
  IF k = 0 THEN Point(0, 0, 0, 0)
  ELSE LET t == SceneSumUpTo(coords, k - 1)
       IN Point(t.x + coords[k].x, t.y + coords[k].y, t.z + coords[k].z, t.w + coords[k].w)

\* a direction fit that looks at the centroid of the scene coordinates
CalculateLookAt_scene ==
  /\ pc = "look_at"
  /\ virtual_camera' = Some([Unwrap(virtual_camera) EXCEPT
                               !.look_at = Some(SceneSumUpTo(Unwrap(scene_coords),
                                                             Len(Unwrap(scene_coords))))])
  /\ pc' = "fov"
  /\ UNCHANGED panic_at
  /\ Record("look_at", {"config", "scene_coords"})
  /\ UNCHANGED <<config, image_points, scene_local, scene_coords, loop_i, uv_local,
                 uv_coords, warnings, output, net_failed>>
  /\ UNCHANGED <<parse_vars, la_vars>>

\* virtual_camera.look_at = Some(calculate_look_at(&surface, &image_points, ..))
CalculateLookAt ==
  /\ pc = "look_at"
  /\ \E r \in calculate_look_at(Unwrap(image_points)) :
       IF r.tag = "Ok"
         THEN /\ virtual_camera' = Some([Unwrap(virtual_camera) EXCEPT !.look_at = Some(r.point)])
              /\ pc' = "fov"
              /\ UNCHANGED panic_at
         ELSE Panic("camera_to_scene") /\ UNCHANGED virtual_camera
  /\ Record("look_at", {"config", "image_points"})
  /\ UNCHANGED <<config, image_points, scene_local, scene_coords, loop_i, uv_local,
                 uv_coords, warnings, output, net_failed>>
  /\ UNCHANGED <<parse_vars, la_vars>>

\* a fit that computes the field of view without storing it
FitFov_unset ==
  /\ pc = "fov"
  /\ LET vc == Unwrap(virtual_camera)
     IN IF vc.look_at = None
          THEN Panic("look_at.unwrap")
          ELSE pc' = "warp" /\ UNCHANGED panic_at
  /\ Record("fov", {"config", "scene_coords", "virtual_camera.look_at"})
  /\ UNCHANGED <<config, virtual_camera, image_points, scene_local, scene_coords, loop_i,
                 uv_local, uv_coords, warnings, output, net_failed>>
  /\ UNCHANGED <<parse_vars, la_vars>>

\* generate_uv_warp_and_fov up to the assignment of virtual_camera.fov
FitFov ==
  /\ pc = "fov"
  /\ LET vc == Unwrap(virtual_camera)
     IN IF vc.look_at = None
          THEN Panic("look_at.unwrap") /\ UNCHANGED virtual_camera
          ELSE /\ virtual_camera' =
                    Some([vc EXCEPT !.fov =
                            Some(FittedFov(look_at(vc.position, Unwrap(vc.look_at), vc.up_dir),
                                           Unwrap(scene_coords)))])
               /\ pc' = "warp"
               /\ UNCHANGED panic_at
  /\ Record("fov", {"config", "scene_coords", "virtual_camera.look_at"})
  /\ UNCHANGED <<config, image_points, scene_local, scene_coords, loop_i, uv_local,
                 uv_coords, warnings, output, net_failed>>
  /\ UNCHANGED <<parse_vars, la_vars>>

\* a loop that drops the points projected off screen
ProjectScenePoint_drop ==
  /\ pc = "warp"
  /\ loop_i <= Len(Unwrap(scene_coords))
  /\ LET vc == Unwrap(virtual_camera)
     IN IF vc.look_at = None \/ vc.fov = None
          THEN /\ Panic(IF vc.look_at = None THEN "look_at.unwrap" ELSE "fov.unwrap")
               /\ UNCHANGED <<uv_local, warnings, loop_i>>
          ELSE \E screen_pos \in project_scene_point(Unwrap(scene_coords)[loop_i], vc,
                                                       config.projector_res) :
                 /\ warnings' = IF OffScreen(screen_pos)
                                  THEN Append(warnings, loop_i) ELSE warnings
                 /\ uv_local' = IF OffScreen(screen_pos)
                                  THEN uv_local ELSE Append(uv_local, screen_pos)
                 /\ loop_i' = loop_i + 1
                 /\ UNCHANGED <<pc, panic_at>>
  /\ Record("warp", {"config", "scene_coords", "virtual_camera.look_at", "virtual_camera.fov"})
  /\ UNCHANGED <<config, virtual_camera, image_points, scene_local, scene_coords,
                 uv_coords, output, net_failed>>
  /\ UNCHANGED <<parse_vars, la_vars>>

\* one iteration of the second loop of generate_uv_warp_and_fov: a call of
\* project_scene_point, its warning, and the push of its result
ProjectScenePoint ==
  /\ pc = "warp"
  /\ loop_i <= Len(Unwrap(scene_coords))
  /\ LET vc == Unwrap(virtual_camera)
     IN IF vc.look_at = None \/ vc.fov = None
          THEN /\ Panic(IF vc.look_at = None THEN "look_at.unwrap" ELSE "fov.unwrap")
               /\ UNCHANGED <<uv_local, warnings, loop_i>>
          ELSE \E screen_pos \in project_scene_point(Unwrap(scene_coords)[loop_i], vc,
                                                       config.projector_res) :
                 /\ warnings' = IF OffScreen(screen_pos)
                                  THEN Append(warnings, loop_i) ELSE warnings
                 /\ uv_local' = Append(uv_local, screen_pos)
                 /\ loop_i' = loop_i + 1
                 /\ UNCHANGED <<pc, panic_at>>
  /\ Record("warp", {"config", "scene_coords", "virtual_camera.look_at", "virtual_camera.fov"})
  /\ UNCHANGED <<config, virtual_camera, image_points, scene_local, scene_coords,
                 uv_coords, output, net_failed>>
  /\ UNCHANGED <<parse_vars, la_vars>>

\* generate_uv_warp_and_fov returns uv_coords
WarpReturn ==
  /\ pc = "warp"
  /\ loop_i > Len(Unwrap(scene_coords))
  /\ uv_coords' = Some(uv_local)
  /\ pc' = "emit"
  /\ loop_i' = 1
  /\ Record("warp", {"config", "scene_coords", "virtual_camera.look_at", "virtual_camera.fov"})
  /\ UNCHANGED <<config, virtual_camera, image_points, scene_local, scene_coords,
                 uv_local, warnings, output, panic_at, net_failed>>
  /\ UNCHANGED <<parse_vars, la_vars>>

\* calibration_json_string
calibration_json(scene, uv, vc, warp_res) ==
  [fov |-> Unwrap(vc.fov), eye |-> vc.position, lookAt |-> Unwrap(vc.look_at),
   up |-> vc.up_dir, warpResX |-> warp_res.width, warpResY |-> warp_res.height,
   warp |-> uv, scene |-> scene]

\* network::send_command: the command is delivered, or the call fails and
\* ends the run
send_command == {"sent", "fatal"}

\* the document is built, then posted with set_calibration or printed
EmitDocument ==
  /\ pc = "emit"
  /\ LET vc == Unwrap(virtual_camera)
     IN IF vc.look_at = None
          THEN Panic("look_at.unwrap") /\ UNCHANGED <<output, net_failed>>
          ELSE LET json == calibration_json(Unwrap(scene_coords), Unwrap(uv_coords), vc,
                                            config.warp_res)
               IN \E post_to \in {"None", "Some"}, r \in send_command :
                    IF post_to = "Some"
                      THEN IF r = "sent"
                             THEN /\ output' = Some([to |-> "posted", json |-> json])
                                  /\ pc' = "done"
                                  /\ UNCHANGED <<panic_at, net_failed>>
                             ELSE /\ Panic("send_command")
                                  /\ net_failed' = net_failed \cup {"send_command"}
                                  /\ UNCHANGED output
                      ELSE /\ output' = Some([to |-> "printed", json |-> json])
                           /\ pc' = "done"
                           /\ UNCHANGED <<panic_at, net_failed>>
  /\ Record("emit", {"config", "scene_coords", "uv_coords", "virtual_camera.look_at",
                     "virtual_camera.fov"})
  /\ UNCHANGED <<config, virtual_camera, image_points, scene_local, scene_coords,
                 loop_i, uv_local, uv_coords, warnings>>
  /\ UNCHANGED <<parse_vars, la_vars>>

Next ==
  \/ LoadCalibration
  \/ DisplayPattern
  \/ CaptureImagePoints
  \/ LocateSceneCoord
  \/ LocateReturn
  \/ CalculateLookAt
  \/ FitFov
  \/ ProjectScenePoint
  \/ WarpReturn
  \/ EmitDocument

Spec == Init /\ [][Next]_vars

(* -------------------------- Resolution::parse ------------------------- *)

\* the characters of the inputs: ASCII digits, the separator, a letter, and
\* "u" for a decimal digit outside ASCII (which \d matches as well)
Alphabet == {"0", "1", "x", "a", "u"}

Strings == UNION {[1..n -> Alphabet] : n \in 0..MaxStr}

\* \d of the regex crate
IsDigit(c) == c \in {"0", "1", "u"}

I32Max == 2147483647

RECURSIVE RunEnd(_, _)

\* the index of the last character of the run of digits that starts at i
RunEnd(s, i) == IF i < Len(s) /\ IsDigit(s[i + 1]) THEN RunEnd(s, i + 1) ELSE i

\* (?P<width>\d+)x(?P<height>\d+) matches at i: \d+ is greedy and "x" is no
\* digit, so the width is the whole run of digits at i
MatchAt(s, i) ==
  /\ IsDigit(s[i])
  /\ LET j == RunEnd(s, i)
     IN j + 2 <= Len(s) /\ s[j + 1] = "x" /\ IsDigit(s[j + 2])

\* RE.captures(input): the leftmost match, None when there is none
Captures(s) ==
  LET starts == {i \in 1..Len(s) : MatchAt(s, i)}
  IN IF starts = {} THEN None
     ELSE LET i == CHOOSE k \in starts : \A m \in starts : k <= m
              j == RunEnd(s, i)
          IN Some([width |-> SubSeq(s, i, j), height |-> SubSeq(s, j + 2, RunEnd(s, j + 2))])

RECURSIVE ParseI32(_, _, _)

\* str::parse::<i32> of a string of digits: the value, or -1 for an Err
\* (a character that is no ASCII digit, or a value above i32::MAX)
ParseI32(digits, k, acc) ==
  IF k > Len(digits) THEN acc
  ELSE IF digits[k] \notin {"0", "1"} THEN -1
  ELSE LET d == IF digits[k] = "1" THEN 1 ELSE 0
       IN IF acc > (I32Max - d) \div 10 THEN -1
          ELSE ParseI32(digits, k + 1, acc * 10 + d)

ParsePanic == [tag |-> "panic", width |-> 0, height |-> 0]

\* Resolution::parse: the expect and the two unwraps panic
ResolutionParse(input) ==
  LET caps == Captures(input)
  IN IF caps = None THEN ParsePanic
     ELSE LET w == ParseI32(Unwrap(caps).width, 1, 0)
              h == ParseI32(Unwrap(caps).height, 1, 0)
          IN IF w < 0 \/ h < 0 THEN ParsePanic
             ELSE [tag |-> "Ok", width |-> w, height |-> h]

InitParse ==
  /\ parse_input \in Strings
  /\ parse_result = None
  /\ pc = "parse"
  /\ config = CHOOSE c \in Configs : TRUE
  /\ virtual_camera = NoCamera
  /\ image_points = None
  /\ scene_local = <<>>
  /\ scene_coords = None
  /\ loop_i = 1
  /\ uv_local = <<>>
  /\ uv_coords = None
  /\ warnings = <<>>
  /\ output = None
  /\ panic_at = "none"
  /\ net_failed = {}
  /\ reads = NoReads
  /\ la_input = <<>>
  /\ la_result = None

Parse ==
  /\ pc = "parse"
  /\ parse_result' = Some(ResolutionParse(parse_input))
  /\ pc' = "parsed"
  /\ UNCHANGED <<config, virtual_camera, image_points, scene_local, scene_coords,
                 loop_i, uv_local, uv_coords, warnings, output, panic_at, net_failed,
                 reads, parse_input, la_vars>>

NextParse == Parse

SpecParse == InitParse /\ [][NextParse]_vars

(* ---------------------- calculate_look_at on its own ------------------ *)

PointSeqs == UNION {[1..n -> Pixels] : n \in 0..MaxSeq}

InitLookAt ==
  /\ la_input \in PointSeqs
  /\ la_result = None
  /\ pc = "call"
  /\ config = CHOOSE c \in Configs : TRUE
  /\ virtual_camera = NoCamera
  /\ image_points = None
  /\ scene_local = <<>>
  /\ scene_coords = None
  /\ loop_i = 1
  /\ uv_local = <<>>
  /\ uv_coords = None
  /\ warnings = <<>>
  /\ output = None
  /\ panic_at = "none"
  /\ net_failed = {}
  /\ reads = NoReads
  /\ parse_input = <<>>
  /\ parse_result = None

\* calculate_look_at(..).unwrap(): a look-at value, or a panic
ApplyCalculateLookAt ==
  /\ pc = "call"
  /\ \E r \in calculate_look_at(la_input) :
       /\ la_result' = Some(r)
       /\ pc' = IF r.tag = "Ok" THEN "returned" ELSE "panicked"
  /\ UNCHANGED <<config, virtual_camera, image_points, scene_local, scene_coords,
                 loop_i, uv_local, uv_coords, warnings, output, panic_at, net_failed,
                 reads, la_input, parse_vars>>

NextLookAt == ApplyCalculateLookAt

SpecLookAt == InitLookAt /\ [][NextLookAt]_vars

(* ---------------------------- properties ------------------------------ *)

FieldsOf(vc) == Unwrap(vc)

Constructed == virtual_camera # NoCamera

LookAtSet == Constructed /\ FieldsOf(virtual_camera).look_at # None

FovSet == Constructed /\ FieldsOf(virtual_camera).fov # None

\* C1: the scene coordinates and the warp coordinates have the length of the
\* image points, scene coordinate i is camera_to_scene of image point i and
\* warp coordinate i is project_scene_point of scene coordinate i; "scene" and
\* "warp" of the emitted document are these sequences.
C1_IndexAligned ==
  /\ scene_coords # None =>
       LET sc == Unwrap(scene_coords)
           ip == Unwrap(image_points)
       IN /\ Len(sc) = Len(ip)
          /\ \A i \in 1..Len(ip) : Hit(sc[i]) \in camera_to_scene(ip[i])
  /\ uv_coords # None =>
       LET uv == Unwrap(uv_coords)
           sc == Unwrap(scene_coords)
       IN /\ Len(uv) = Len(Unwrap(image_points))
          /\ \A i \in 1..Len(uv) :
               uv[i] \in project_scene_point(sc[i], FieldsOf(virtual_camera),
                                             config.projector_res)
  /\ output # None =>
       /\ Unwrap(output).json.scene = Unwrap(scene_coords)
       /\ Unwrap(output).json.warp = Unwrap(uv_coords)
       /\ Len(Unwrap(output).json.warp) = Len(Unwrap(image_points))

C1_Witness ==
  /\ pc = "done"
  /\ Len(Unwrap(image_points)) = 2
  /\ Unwrap(image_points)[1] # Unwrap(image_points)[2]
  /\ Unwrap(uv_coords)[1] # Unwrap(uv_coords)[2]

SomePointFails ==
  /\ image_points # None
  /\ \E i \in 1..Len(Unwrap(image_points)) : Failed \in camera_to_scene(Unwrap(image_points)[i])

\* C2: when camera_to_scene fails for one of the image points, the run ends
\* in a panic at that point: no scene coordinate sequence is returned, no
\* later stage runs and no document is printed or posted.
C2_FailureIsFatal ==
  /\ [](SomePointFails =>
          /\ pc \in {"locate", "panicked"}
          /\ scene_coords = None
          /\ ~LookAtSet
          /\ ~FovSet
          /\ uv_local = <<>>
          /\ uv_coords = None
          /\ output = None)
  /\ [][(pc = "locate" /\ loop_i <= Len(Unwrap(image_points))
           /\ Failed \in camera_to_scene(Unwrap(image_points)[loop_i]))
          => (pc' = "panicked" /\ panic_at' = "camera_to_scene")]_vars

C2_Witness ==
  /\ pc = "panicked"
  /\ panic_at = "camera_to_scene"
  /\ Len(scene_local) >= 1
  /\ scene_coords = None

StageOrder ==
  <<"load", "display", "capture", "locate", "look_at", "fov", "warp", "emit", "done">>

Position(stage) == CHOOSE k \in 1..Len(StageOrder) : StageOrder[k] = stage

\* C4: the stages run in the fixed order load, detect (display, capture),
\* locate, look_at, fov, warp, emit, each entered from the one before it;
\* no stage is entered again, a failure leads to the panic and nothing runs
\* after the panic or after the end; the output of a stage exists only when
\* the outputs of the stages before it exist.
C4_FixedOrder ==
  /\ [][/\ pc \notin {"panicked", "done"}
        /\ pc' # pc => (pc' = "panicked" \/ Position(pc') = Position(pc) + 1)]_vars
  /\ [](/\ scene_coords # None => image_points # None
        /\ LookAtSet => scene_coords # None
        /\ FovSet => LookAtSet
        /\ uv_local # <<>> => FovSet
        /\ uv_coords # None => FovSet
        /\ output # None => uv_coords # None)

C4_Witness == pc = "done" /\ output # None /\ FovSet /\ LookAtSet

\* C6: every coordinate project_scene_point returns is pushed at its index,
\* on screen or not; the indices of the off-screen ones are those warned
\* about; the warp stage never panics.
C6_OffScreenIsKept ==
  /\ [](/\ \A j \in 1..Len(uv_local) :
             uv_local[j] \in project_scene_point(Unwrap(scene_coords)[j],
                                                 FieldsOf(virtual_camera),
                                                 config.projector_res)
        /\ \A j \in 1..Len(uv_local) :
             OffScreen(uv_local[j]) <=> (\E k \in 1..Len(warnings) : warnings[k] = j)
        /\ pc \in {"emit", "done"} => Len(uv_local) = Len(Unwrap(scene_coords)))
  /\ [][pc = "warp" => pc' \in {"warp", "emit"}]_vars

C6_Witness ==
  /\ pc = "done"
  /\ \E j \in 1..Len(uv_local) :
       /\ OffScreen(uv_local[j])
       /\ Unwrap(output).json.warp[j] = uv_local[j]
       /\ \E k \in 1..Len(warnings) : warnings[k] = j

\* C7: project_scene_point runs only with look_at and fov set (no unwrap of
\* None); look_at and fov, once set, keep their value; position and up_dir
\* keep the value of the construction.
C7_StagedCamera ==
  /\ [](/\ pc = "warp" => (LookAtSet /\ FovSet)
        /\ uv_local # <<>> => (LookAtSet /\ FovSet)
        /\ panic_at \notin {"look_at.unwrap", "fov.unwrap"})
  /\ [][/\ LookAtSet => FieldsOf(virtual_camera').look_at = FieldsOf(virtual_camera).look_at
        /\ FovSet => FieldsOf(virtual_camera').fov = FieldsOf(virtual_camera).fov
        /\ Constructed =>
             /\ FieldsOf(virtual_camera').position = FieldsOf(virtual_camera).position
             /\ FieldsOf(virtual_camera').up_dir = FieldsOf(virtual_camera).up_dir]_vars

C7_Witness == pc = "done" /\ Len(uv_local) = 2 /\ LookAtSet /\ FovSet

\* C8 as stated: after the fit every warp coordinate of a non-empty point
\* set is inside [0,1] on both axes.
C8_AllInside ==
  (uv_coords # None /\ Len(Unwrap(uv_coords)) >= 1) =>
    \A j \in 1..Len(Unwrap(uv_coords)) :
      Unwrap(uv_coords)[j].x = "in" /\ Unwrap(uv_coords)[j].y = "in"

\* the fitted half angle is above 0 and 1.0005 times it is below 90 degrees
RegularFit ==
  LET vc == FieldsOf(virtual_camera)
      trans == look_at(vc.position, Unwrap(vc.look_at), vc.up_dir)
      fov == Unwrap(vc.fov)
  IN ~trans.nan /\ fov.a > 0 /\ ~TanAbove(fov, Dot(trans.s, trans.s), 1273)

\* C8 amended: when the fitted maximum angle is above 0 and its 1.0005-fold
\* is below 90 degrees, every fitted point of non-zero view depth has its
\* vertical warp coordinate inside [0,1].
C8_VerticalInside ==
  (FovSet /\ RegularFit) =>
    \A j \in 1..Len(uv_local) :
      uv_local[j].eye_relative.z # 0 => uv_local[j].y = "in"

C8_Witness ==
  /\ pc = "done"
  /\ RegularFit
  /\ Len(uv_local) = 2
  /\ uv_local[1].y = "in" /\ uv_local[2].y = "in"
  /\ uv_local[1].eye_relative.y # uv_local[2].eye_relative.y
  /\ uv_local[1].x = "out"

ProducedBy ==
  [d \in {"image_points", "scene_coords", "virtual_camera.look_at", "virtual_camera.fov",
          "uv_coords"} |->
     CASE d = "image_points" -> "capture"
       [] d = "scene_coords" -> "locate"
       [] d = "virtual_camera.look_at" -> "look_at"
       [] d = "virtual_camera.fov" -> "fov"
       [] d = "uv_coords" -> "warp"]

\* C10 as stated: a stage reads configuration and the output of the stage
\* immediately before it, nothing else.
C10_OnlyPrevious ==
  \A st \in DOMAIN reads :
    \A d \in reads[st] \ {"config"} : Position(ProducedBy[d]) = Position(st) - 1

\* C10 amended: a stage reads configuration and outputs of stages before it,
\* never of a later one; the direction fit reads the image points and not
\* the scene coordinates, and its result is calculate_look_at of the image
\* points.
C10_ForwardOnly ==
  /\ \A st \in DOMAIN reads :
       \A d \in reads[st] \ {"config"} : Position(ProducedBy[d]) < Position(st)
  /\ "look_at" \in DOMAIN reads =>
       ("image_points" \in reads["look_at"] /\ "scene_coords" \notin reads["look_at"])
  /\ LookAtSet =>
       Hit(Unwrap(FieldsOf(virtual_camera).look_at)) \in calculate_look_at(Unwrap(image_points))

C10_Witness == pc = "done" /\ "look_at" \in DOMAIN reads /\ "emit" \in DOMAIN reads

RECURSIVE DecimalValue(_)

DecimalValue(digits) ==
  IF digits = <<>> THEN 0
  ELSE 10 * DecimalValue(SubSeq(digits, 1, Len(digits) - 1))
       + (IF digits[Len(digits)] = "1" THEN 1 ELSE 0)

\* "<width>x<height>": decimal digits, one "x", decimal digits, nothing else
WellFormedAt(s, k) ==
  /\ 1 < k /\ k < Len(s)
  /\ s[k] = "x"
  /\ \A i \in (1..Len(s)) \ {k} : s[i] \in {"0", "1"}

\* C5: Resolution::parse of a well-formed string is Ok with that width and
\* height, and of any other string it fails.
C5_ParseContract ==
  parse_result # None =>
    IF \E k \in 1..Len(parse_input) : WellFormedAt(parse_input, k)
      THEN LET k == CHOOSE m \in 1..Len(parse_input) : WellFormedAt(parse_input, m)
           IN Unwrap(parse_result) =
                [tag |-> "Ok",
                 width |-> DecimalValue(SubSeq(parse_input, 1, k - 1)),
                 height |-> DecimalValue(SubSeq(parse_input, k + 1, Len(parse_input)))]
      ELSE Unwrap(parse_result).tag = "panic"

\* C9: calculate_look_at of no points fails and produces no look-at value.
C9_EmptyFails ==
  (la_result # None /\ la_input = <<>>) => Unwrap(la_result).tag = "Err"

====
